---- MODULE Spec2Model ----
(***************************************************************************)
(* Focus capture, focus restore and paste injection of Prompter            *)
(* (src-tauri/src/os): the process-wide PREVIOUS_WINDOW registry, the      *)
(* WindowsFocusTracker and WindowsInputSimulator adapters, the             *)
(* PastePromptUseCase, and the commands, hotkey, tray and blur handlers    *)
(* that call them.                                                         *)
(***************************************************************************)
EXTENDS Integers, Sequences, FiniteSets, TLC

\* ------------------------------------------------------------------ bounds
\* Number of windows owned by other applications.
MaxExternal == 2
\* Number of blur-listener threads that can be sleeping at the same time.
MaxBlur == 1

\* ------------------------------------------------------- windows and the OS
\* HWND values.  0 is the invalid (null) handle of hwnd.is_invalid().
NullHwnd == 0
\* The "main" webview window of Prompter.
MainWindow == 1
OwnWindows == {MainWindow}
ExternalWindows == (MainWindow + 1)..(MainWindow + MaxExternal)
Hwnds == OwnWindows \cup ExternalWindows

\* Process that owns a window (GetWindowThreadProcessId).
get_window_process_id(hwnd) == IF hwnd \in OwnWindows THEN "prompter" ELSE "other"
\* std::process::id()
our_pid == "prompter"
is_same_process(hwnd) == get_window_process_id(hwnd) = our_pid

\* Option<isize>
None == <<>>
Some(h) == <<h>>
Unwrap(o) == IF o = None THEN NullHwnd ELSE o[1]

\* Texts given to paste_prompt, and texts found on the clipboard.
Texts == {"prompt"}
ClipboardTexts == Texts \cup {"other"}

\* The tasks that run restore_previous_window: the worker of copy_and_paste and
\* the hide_window command.
Procs == {"paste", "hide"}

\* for attempt in 0..3
VerifyAttempts == 3
\* std::thread::sleep(Duration::from_millis(10)) of the verification loop
VerifyDelayMs == 10

VARIABLES
    fg,               \* GetForegroundWindow(): a handle, or NullHwnd
    alive,            \* external windows that still exist (IsWindow)
    visible,          \* Prompter windows that are shown
    PREVIOUS_WINDOW,  \* static PREVIOUS_WINDOW: Option<isize>
    lock,             \* holder of the PREVIOUS_WINDOW mutex, or "free"
    blurPending,      \* blur-listener threads sleeping before remember_if_external
    pc,               \* pc[p]: position of task p
    rs,               \* rs[p]: locals of p's restore_previous_window call
    exec,             \* locals of PastePromptUseCase::execute
    sim,              \* locals of WindowsInputSimulator::simulate_paste
    retval,           \* retval[p]: what the command of task p returned
    cleared,          \* history: the last write to PREVIOUS_WINDOW was a clear
    remembered,       \* history (SpecHide, SpecCalls): the foreground handle
                      \* that the most recent remember_current_window call
                      \* found, while its write is the last to PREVIOUS_WINDOW
    last,             \* history (SpecCalls): the registry call a handler or a
                      \* blur listener made last, and what it returned
    files,            \* the prompts directory: files[id] is the text of the
                      \* file at prompts_dir.join(id), or NoFile
    saved,            \* history (SpecRepo): saved[id] is the prompt of the
                      \* last save under id, None after its delete
    reply             \* history (SpecRepo): the last repository call and
                      \* what it returned

vars == <<fg, alive, visible, PREVIOUS_WINDOW, lock, blurPending, pc, rs, exec,
          sim, retval, cleared, remembered, last, files, saved, reply>>

osVars == <<fg, alive, visible, blurPending>>
taskVars == <<pc, rs, exec, sim, retval>>
regVars == <<PREVIOUS_WINDOW, lock, cleared, remembered, last>>
repoVars == <<files, saved, reply>>

\* Prompt ids are paths relative to the prompts directory.
PromptIds == {"f/q.md", "notes"}
PromptNames == {"n", "m"}
PromptContents == {"a", "a---b"}
NoFile == [exists |-> FALSE]
File(text) == [exists |-> TRUE, text |-> text]
NoReply == [op |-> "none"]

\* ------------------------------------------------------------- OS behaviour
\* IsWindow(hwnd): Prompter's windows exist for the life of the process.
IsWindow(hwnd) == hwnd \in OwnWindows \/ hwnd \in alive

\* Windows that can be given the foreground.
Focusable(vis, live) == vis \cup live

\* A Prompter window that loses the foreground gets WindowEvent::Focused(false);
\* the run loop spawns one listener thread per event (lib.rs 268-285).
Blurred(old, new) == old \in OwnWindows /\ new # old
SpawnBlur(n, old, new) ==
    IF Blurred(old, new) THEN (IF n < MaxBlur THEN n + 1 ELSE MaxBlur) ELSE n

RestoreLocals == [hwnd_val |-> None, attempt |-> 0, result |-> "none",
                  os_calls |-> <<>>, thread |-> "none"]

ExecLocals == [text |-> "prompt", auto_paste |-> FALSE, write |-> "none",
               read |-> "none",
               clipboard_verified |-> FALSE,
               focus_result |-> "none", focus_restored |-> FALSE,
               paste_attempted |-> FALSE, paste_result |-> "none",
               paste_result_ok |-> FALSE, calls |-> <<>>]

SimLocals == [sendinput_success |-> FALSE, sendmessage_success |-> FALSE,
              wm_paste_success |-> FALSE, tried |-> <<>>, result |-> "none",
              keys |-> <<>>, sent |-> <<>>, thread |-> "none"]

NoReturn == [tag |-> "none"]

NoCall == [op |-> "none"]

Init ==
    /\ fg \in ExternalWindows \cup {NullHwnd}
    /\ alive = ExternalWindows
    /\ visible = {}
    /\ PREVIOUS_WINDOW = None
    /\ lock = "free"
    /\ blurPending = 0
    /\ pc = [p \in Procs |-> "idle"]
    /\ rs = [p \in Procs |-> RestoreLocals]
    /\ exec = ExecLocals
    /\ sim = SimLocals
    /\ retval = [p \in Procs |-> NoReturn]
    /\ cleared = FALSE
    /\ remembered = None
    /\ last = NoCall
    /\ files = [id \in PromptIds |-> NoFile]
    /\ saved = [id \in PromptIds |-> None]
    /\ reply = NoReply

\* ---------------------------------------------------------- the environment
\* The user (or another application) moves the foreground.
UserFocus(w) ==
    /\ w \in Focusable(visible, alive) \cup {NullHwnd}
    /\ w # fg
    /\ Blurred(fg, w) => blurPending < MaxBlur
    /\ fg' = w
    /\ blurPending' = SpawnBlur(blurPending, fg, w)
    /\ UNCHANGED <<alive, visible, regVars, taskVars>>
    /\ UNCHANGED repoVars

\* An external application closes its window; handles are not reused.
CloseWindow(w) ==
    /\ w \in alive
    /\ alive' = alive \ {w}
    /\ IF fg = w
       THEN fg' \in Focusable(visible, alive') \cup {NullHwnd}
       ELSE fg' = fg
    /\ UNCHANGED <<visible, blurPending, regVars, taskVars>>
    /\ UNCHANGED repoVars

\* ------------------------------------------------------------ FocusRegistry
\* WindowsFocusTracker::remember_current_window: the value stored and returned.
\* The mutex is taken for the one assignment; a caller waits while it is held.
\* Mutant: a handle already stored is kept.
RememberStore_KeepsFirst(hwnd, prev) ==
    IF hwnd # NullHwnd /\ prev = None THEN Some(hwnd) ELSE prev
RememberStore(hwnd, prev) == IF hwnd # NullHwnd THEN Some(hwnd) ELSE prev
RememberResult(hwnd) == IF hwnd # NullHwnd THEN "Ok" ELSE "NoForegroundWindow"

\* window.show(); window.set_focus(): the OS may refuse to hand over the
\* foreground.
ShowMain(got) ==
    /\ visible' = visible \cup {MainWindow}
    /\ fg' = IF got THEN MainWindow ELSE fg
    /\ blurPending' = SpawnBlur(blurPending, fg, fg')

\* The four paths that show the main window: the show_window command
\* (ShowWindowUseCase, then show/set_focus unless remember failed), the tray
\* "show" item, the tray left-click and the F9 hotkey (errors ignored).
ShowHandlers == {"show_window", "tray_show", "tray_click", "hotkey"}

\* Each path calls remember_current_window first, so the call reads the
\* foreground as it is before show() and set_focus().
\* Mutant: the tray left-click shows and focuses the window first.
ForegroundAtRemember_ShowFirst(h, before, after) ==
    IF h = "tray_click" THEN after ELSE before
ForegroundAtRemember(h, before, after) == before

Show(h, got) ==
    /\ fg # NullHwnd => lock = "free"
    /\ IF h = "show_window" /\ RememberResult(fg) # "Ok"
       THEN UNCHANGED osVars
       ELSE ShowMain(got) /\ UNCHANGED alive
    /\ LET hwnd == ForegroundAtRemember(h, fg, fg')
       IN  /\ PREVIOUS_WINDOW' = RememberStore(hwnd, PREVIOUS_WINDOW)
           /\ cleared' = (cleared /\ RememberResult(hwnd) # "Ok")
    /\ UNCHANGED <<lock, taskVars>>
    /\ UNCHANGED repoVars

\* WindowsFocusTracker::remember_if_external, run by a blur-listener thread
\* after its 50 ms sleep.
\* Mutant: the process of the foreground window is not looked at.
ExternalStore_AnyProcess(hwnd, prev) ==
    IF hwnd = NullHwnd THEN prev ELSE Some(hwnd)
ExternalStore(hwnd, prev) ==
    IF hwnd = NullHwnd THEN prev
    ELSE IF is_same_process(hwnd) THEN prev
    ELSE Some(hwnd)
\* Mutant: an invalid foreground handle is reported like an internal switch.
ExternalResult_InvalidIsFalse(hwnd) ==
    IF hwnd = NullHwnd \/ is_same_process(hwnd) THEN "false" ELSE "true"
ExternalResult(hwnd) ==
    IF hwnd = NullHwnd THEN "NoForegroundWindow"
    ELSE IF is_same_process(hwnd) THEN "false"
    ELSE "true"

BlurListener ==
    /\ blurPending > 0
    /\ ExternalResult(fg) = "true" => lock = "free"
    /\ blurPending' = blurPending - 1
    /\ PREVIOUS_WINDOW' = ExternalStore(fg, PREVIOUS_WINDOW)
    /\ cleared' = (cleared /\ ExternalResult(fg) # "true")
    /\ UNCHANGED <<fg, alive, visible, lock, taskVars>>
    /\ UNCHANGED repoVars

\* WindowsFocusTracker::clear_saved_window
\* Mutant: the stored handle survives the clear.
ClearStore_Keeps == PREVIOUS_WINDOW
ClearStore == None

\* -------------------------------------------------------------- FocusRestorer
\* WindowsFocusTracker::restore_previous_window, one action per OS call.  The
\* guard `handle` taken on entry lives until the function returns.
\* let handle = PREVIOUS_WINDOW.lock().unwrap(); if let Some(hwnd_val) = *handle
RestoreHolds(p) == p
\* The OS calls a restore made, with the handle each was given; a poll is
\* logged with the handle its result was compared with and whether the call
\* had returned that handle.
\* Mutant: the call is made on the window that has the foreground.
OsCall_Foreground(name, hwnd) == [call |-> name, hwnd |-> fg]
OsCall(name, hwnd) == [call |-> name, hwnd |-> hwnd]
Polled(current, hwnd) ==
    [call |-> "GetForegroundWindow", target |-> hwnd,
     returned_target |-> current = hwnd]
Slept(ms) == [call |-> "sleep", ms |-> ms]
\* Mutant: the empty registry is not told apart from a stored handle.
HasSavedWindow_Always(handle) == TRUE
HasSavedWindow(handle) == handle # None
\* The thread a call of restore_previous_window runs on: execute hands it to
\* tokio::task::spawn_blocking, hide_window calls it in its own async fn.
RestoreThread(p) == IF p = "paste" THEN "spawn_blocking" ELSE "async_task"
\* execute hands simulate_paste to tokio::task::spawn_blocking too.
PasteThread == "spawn_blocking"
RestoreLock(p) ==
    /\ pc[p] = "restore"
    /\ lock = "free"
    /\ IF ~HasSavedWindow(PREVIOUS_WINDOW)
       THEN /\ rs' = [rs EXCEPT ![p] = [RestoreLocals EXCEPT !.result = "NoSavedWindow",
                                                      !.thread = RestoreThread(p)]]
            /\ pc' = [pc EXCEPT ![p] = "restore_returned"]
            /\ UNCHANGED lock
       ELSE /\ rs' = [rs EXCEPT ![p] = [RestoreLocals EXCEPT !.hwnd_val = PREVIOUS_WINDOW,
                                                      !.thread = RestoreThread(p)]]
            /\ lock' = RestoreHolds(p)
            /\ pc' = [pc EXCEPT ![p] = "is_window"]
    /\ UNCHANGED <<osVars, PREVIOUS_WINDOW, cleared, remembered, last, exec, sim, retval>>
    /\ UNCHANGED repoVars

\* if !IsWindow(hwnd).as_bool() { return Err("Invalid window handle") }
\* Mutant: the handle is used without the liveness check.
AfterIsWindow_Unchecked(valid) == "set_foreground"
AfterIsWindow(valid) == IF valid THEN "set_foreground" ELSE "restore_returned"
RestoreIsWindow(p) ==
    /\ pc[p] = "is_window"
    /\ LET called == [rs EXCEPT ![p].os_calls =
                         Append(@, OsCall("IsWindow", Unwrap(rs[p].hwnd_val)))]
       IN  IF AfterIsWindow(IsWindow(Unwrap(rs[p].hwnd_val))) = "restore_returned"
           THEN /\ rs' = [called EXCEPT ![p].result = "StaleWindowHandle"]
                /\ lock' = "free"
                /\ pc' = [pc EXCEPT ![p] = "restore_returned"]
           ELSE /\ rs' = called
                /\ pc' = [pc EXCEPT ![p] = "set_foreground"]
                /\ UNCHANGED lock
    /\ UNCHANGED <<osVars, PREVIOUS_WINDOW, cleared, remembered, last, exec, sim, retval>>
    /\ UNCHANGED repoVars

\* let result = SetForegroundWindow(hwnd): the OS may reject the request, or
\* report success and leave the foreground where it was.
RestoreSetForeground(p, accepted, honoured) ==
    /\ pc[p] = "set_foreground"
    /\ LET called == [rs EXCEPT ![p].os_calls =
                         Append(@, OsCall("SetForegroundWindow",
                                          Unwrap(rs[p].hwnd_val)))]
       IN  IF ~accepted
           THEN /\ rs' = [called EXCEPT ![p].result = "OSFocusRejected"]
                /\ lock' = "free"
                /\ pc' = [pc EXCEPT ![p] = "restore_returned"]
                /\ UNCHANGED osVars
           ELSE /\ rs' = called
                /\ pc' = [pc EXCEPT ![p] = "verify_focus"]
                /\ fg' = IF honoured /\ IsWindow(Unwrap(rs[p].hwnd_val))
                         THEN Unwrap(rs[p].hwnd_val) ELSE fg
                /\ blurPending' = SpawnBlur(blurPending, fg, fg')
                /\ UNCHANGED <<alive, visible, lock>>
    /\ UNCHANGED <<PREVIOUS_WINDOW, cleared, remembered, last, exec, sim, retval>>
    /\ UNCHANGED repoVars

\* One iteration of `for attempt in 0..3`: sleep 10 ms, GetForegroundWindow,
\* compare with the target.
\* Mutant: the return code of SetForegroundWindow is taken as the proof.
FocusVerified_TrustsReturnCode(current, hwnd) == TRUE
FocusVerified(current, hwnd) == current = hwnd
\* Mutant: the loop polls until the target has the foreground.
LoopExhausted_Never(attempt) == FALSE
\* `attempt` counts the iterations done; 0..3 ends after the third.
LoopExhausted(attempt) == attempt >= VerifyAttempts
RestorePoll(p) ==
    /\ pc[p] = "verify_focus"
    /\ LET called == [rs EXCEPT ![p].os_calls =
                         Append(Append(@, Slept(VerifyDelayMs)),
                                Polled(fg, Unwrap(rs[p].hwnd_val))),
                                ![p].attempt = @ + 1]
       IN  IF FocusVerified(fg, Unwrap(rs[p].hwnd_val))
           THEN /\ rs' = [called EXCEPT ![p].result = "Ok"]
                /\ lock' = "free"
                /\ pc' = [pc EXCEPT ![p] = "restore_returned"]
           ELSE IF LoopExhausted(called[p].attempt)
           THEN /\ rs' = [called EXCEPT ![p].result = "FocusNotVerified"]
                /\ lock' = "free"
                /\ pc' = [pc EXCEPT ![p] = "restore_returned"]
           ELSE /\ rs' = called
                /\ UNCHANGED <<pc, lock>>
    /\ UNCHANGED <<osVars, PREVIOUS_WINDOW, cleared, remembered, last, exec, sim, retval>>
    /\ UNCHANGED repoVars

\* ------------------------------------------------------------ PasteInjector
\* WindowsInputSimulator::simulate_paste: the three strategies, then the result
\* policy of lines 315-325.
\* Mutant: `||` for `&&`, the call fails as soon as one strategy failed.
SimulatePasteResult_AnyFailure(sendinput_success, sendmessage_success, wm_paste_success) ==
    IF ~sendinput_success \/ ~sendmessage_success \/ ~wm_paste_success
    THEN "AllInjectionStrategiesFailed"
    ELSE "Ok"

SimulatePasteResult(sendinput_success, sendmessage_success, wm_paste_success) ==
    IF ~sendinput_success /\ ~sendmessage_success /\ ~wm_paste_success
    THEN "AllInjectionStrategiesFailed"
    ELSE "Ok"

\* Where simulate_paste goes after a strategy returned `ok`: always the next one.
\* Mutant: simulate_paste returns at the first strategy that succeeded.
AfterStrategy_ShortCircuit(ok, next) == IF ok THEN "paste_returned" ELSE next
AfterStrategy(ok, next) == next

\* send_key_event(vk, key_up): one SendInput call with one keyboard INPUT.
VK_CONTROL == "VK_CONTROL"
VK_V == "VK_V"
KeyEvent(vk, key_up) == [vk |-> vk, key_up |-> key_up]
\* std::thread::sleep(Duration::from_millis(20)) between two key events
KeyDelayMs == 20

\* simulate_ctrl_v_sequential: the events it sends, in order.
\* Mutant: Ctrl is released before V.
CtrlV_CtrlReleasedFirst ==
    <<KeyEvent(VK_CONTROL, FALSE), KeyEvent(VK_V, FALSE),
      KeyEvent(VK_CONTROL, TRUE), KeyEvent(VK_V, TRUE)>>
CtrlV ==
    <<KeyEvent(VK_CONTROL, FALSE), KeyEvent(VK_V, FALSE),
      KeyEvent(VK_V, TRUE), KeyEvent(VK_CONTROL, TRUE)>>

\* What reaches the input stream when the SendInput call of event number
\* fails_at fails (0: none fails): `?` returns at the failed call, each event
\* that was sent but the last is followed by the sleep.
RECURSIVE SendKeys(_, _, _)
SendKeys(events, i, fails_at) ==
    IF i > Len(events) \/ i = fails_at THEN <<>>
    ELSE <<events[i]>>
         \o (IF i < Len(events) THEN <<Slept(KeyDelayMs)>> ELSE <<>>)
         \o SendKeys(events, i + 1, fails_at)
simulate_ctrl_v_sequential(fails_at) ==
    [ok |-> fails_at = 0, log |-> SendKeys(CtrlV, 1, fails_at)]

\* simulate_keys: every key pressed in order, then released in reverse order.
simulate_keys(keys) ==
    [i \in 1..(Len(keys) + Len(keys)) |->
        IF i <= Len(keys) THEN KeyEvent(keys[i], FALSE)
        ELSE KeyEvent(keys[Len(keys) + Len(keys) + 1 - i], TRUE)]

\* Strategy 1, simulate_with_attachment: fails with no foreground window, or
\* when a SendInput call of simulate_ctrl_v_sequential fails.
Strategy1(fails_at) ==
    /\ pc["paste"] = "strategy1"
    /\ fg = NullHwnd => fails_at = 0
    /\ LET r == simulate_ctrl_v_sequential(fails_at)
           ok == fg # NullHwnd /\ r.ok
       IN  /\ sim' = [sim EXCEPT !.sendinput_success = ok,
                                 !.tried = Append(@, "SendInput"),
                                 !.thread = PasteThread,
                                 !.keys = IF fg # NullHwnd THEN r.log ELSE <<>>]
           /\ pc' = [pc EXCEPT !["paste"] = AfterStrategy(ok, "strategy2")]
    /\ UNCHANGED <<osVars, regVars, rs, exec, retval>>
    /\ UNCHANGED repoVars

\* Strategy 2, try_send_message_keys: fails only with no foreground window;
\* the results of its SendMessageW calls are dropped (`let _ =`).
\* Mutant: a message that was not delivered fails the strategy.
try_send_message_keys_ChecksResult(has_foreground, sent_ok) ==
    has_foreground /\ sent_ok
try_send_message_keys(has_foreground, sent_ok) == has_foreground
Strategy2(sent_ok) ==
    /\ pc["paste"] = "strategy2"
    /\ fg = NullHwnd => sent_ok
    /\ LET ok == try_send_message_keys(fg # NullHwnd, sent_ok)
       IN  /\ sim' = [sim EXCEPT !.sendmessage_success = ok,
                                 !.tried = Append(@, "SendMessage"),
                                 !.sent = IF fg # NullHwnd THEN Append(@, sent_ok)
                                          ELSE @]
           /\ pc' = [pc EXCEPT !["paste"] = AfterStrategy(ok, "strategy3")]
    /\ UNCHANGED <<osVars, regVars, rs, exec, retval>>
    /\ UNCHANGED repoVars

\* Strategy 3, try_wm_paste: fails only with no foreground window; the results
\* of SendMessageW and PostMessageW are logged or dropped.
try_wm_paste(has_foreground, sent_ok) == has_foreground
Strategy3(sent_ok) ==
    /\ pc["paste"] = "strategy3"
    /\ fg = NullHwnd => sent_ok
    /\ LET ok == try_wm_paste(fg # NullHwnd, sent_ok)
       IN  /\ sim' = [sim EXCEPT !.wm_paste_success = ok,
                                 !.tried = Append(@, "WM_PASTE"),
                                 !.sent = IF fg # NullHwnd THEN Append(@, sent_ok)
                                          ELSE @,
                                 !.result = SimulatePasteResult(
                                     sim.sendinput_success,
                                     sim.sendmessage_success, ok)]
           /\ pc' = [pc EXCEPT !["paste"] = "paste_returned"]
    /\ UNCHANGED <<osVars, regVars, rs, exec, retval>>
    /\ UNCHANGED repoVars

\* --------------------------------------------------------- PasteOrchestrator
\* window.hide() of the main window: when it had the foreground the OS hands
\* the foreground to another window, or to none.
HideMain ==
    /\ visible' = visible \ {MainWindow}
    /\ IF fg = MainWindow
       THEN fg' \in Focusable(visible', alive) \cup {NullHwnd}
       ELSE fg' = fg
    /\ blurPending' = SpawnBlur(blurPending, fg, fg')
    /\ UNCHANGED alive

\* paste_likely_success = paste_attempted && paste_result_ok && focus_restored
\* Mutant: focus restoration is left out of the conjunction.
PasteLikelySuccess_IgnoresFocus(paste_attempted, paste_result_ok, focus_restored) ==
    paste_attempted /\ paste_result_ok
\* Mutant: the injection result counts only when a paste was attempted.
PasteLikelySuccess_AttemptOptional(paste_attempted, paste_result_ok, focus_restored) ==
    (paste_attempted => paste_result_ok) /\ focus_restored
PasteLikelySuccess(paste_attempted, paste_result_ok, focus_restored) ==
    paste_attempted /\ paste_result_ok /\ focus_restored

\* The message of lines 129-138.
\* Mutant: the `paste_attempted && !focus_restored` branch is missing.
Message_NoManualBranch(auto_paste, paste_likely_success, paste_attempted, focus_restored) ==
    IF ~auto_paste THEN "Copied to clipboard"
    ELSE IF paste_likely_success THEN "Copied and pasted"
    ELSE "Copied to clipboard - press Ctrl+V if not pasted"
Message(auto_paste, paste_likely_success, paste_attempted, focus_restored) ==
    IF ~auto_paste THEN "Copied to clipboard"
    ELSE IF paste_likely_success THEN "Copied and pasted"
    ELSE IF paste_attempted /\ ~focus_restored
         THEN "Copied to clipboard - press Ctrl+V to paste"
    ELSE "Copied to clipboard - press Ctrl+V if not pasted"

\* The early return of lines 31-38.
ClipboardFailed(e) ==
    [tag |-> "Ok",
     value |-> [clipboard_success |-> FALSE, paste_attempted |-> FALSE,
                paste_likely_success |-> FALSE,
                message |-> "Failed to copy to clipboard: " \o e]]

\* Mutant: a failed focus restore is propagated (`?`) instead of folded in.
Completed_PropagatesFocusError(x) ==
    IF x.focus_restored
    THEN [tag |-> "Ok",
          value |-> [clipboard_success |-> TRUE,
                     paste_attempted |-> x.paste_attempted,
                     paste_likely_success |-> x.paste_attempted /\ x.paste_result_ok,
                     message |-> IF x.auto_paste THEN "Copied and pasted"
                                 ELSE "Copied to clipboard"]]
    ELSE [tag |-> "Err", error |-> x.focus_result]

\* The return of lines 127-146.
Completed(x) ==
    LET likely == PasteLikelySuccess(x.paste_attempted, x.paste_result_ok,
                                     x.focus_restored)
    IN  [tag |-> "Ok",
         value |-> [clipboard_success |-> TRUE,
                    paste_attempted |-> x.paste_attempted,
                    paste_likely_success |-> likely,
                    message |-> Message(x.auto_paste, likely, x.paste_attempted,
                                        x.focus_restored)]]

\* copy_and_paste up to use_case.execute: hide the main window, sleep 50 ms.
\* The command is invoked from the main window's own UI.
StartPaste(text, auto_paste) ==
    /\ pc["paste"] = "idle"
    /\ MainWindow \in visible
    /\ HideMain
    /\ exec' = [ExecLocals EXCEPT !.text = text, !.auto_paste = auto_paste]
    /\ pc' = [pc EXCEPT !["paste"] = "write_clipboard"]
    /\ UNCHANGED <<regVars, rs, sim, retval>>
    /\ UNCHANGED repoVars

\* Step 1: self.clipboard.write_text(text)
WriteErrors == {"Clipboard write error"}
\* Mutant: a failed write is logged and the flow goes on.
AfterWrite_IgnoresFailure(ok) == "verify_clipboard"
AfterWrite(ok) == IF ok THEN "verify_clipboard" ELSE "done"
WriteClipboard(ok) ==
    /\ pc["paste"] = "write_clipboard"
    /\ exec' = [exec EXCEPT !.calls = Append(@, "write_text"),
                            !.write = IF ok THEN "Ok" ELSE "Err"]
    /\ pc' = [pc EXCEPT !["paste"] = AfterWrite(ok)]
    /\ IF ok
       THEN UNCHANGED retval
       ELSE \E e \in WriteErrors :
               retval' = [retval EXCEPT !["paste"] = ClipboardFailed(e)]
    /\ UNCHANGED <<osVars, regVars, rs, sim>>
    /\ UNCHANGED repoVars

\* Steps 2 and 2a: sleep 20 ms, self.clipboard.read_text(); then the restore
\* worker is spawned.
ReadResults ==
    [ok : {TRUE}, v : ClipboardTexts] \cup [ok : {FALSE}, v : {"Clipboard read error"}]
Verification(r, text) == IF r.ok THEN r.v ELSE text
\* Lines 46-60 only log; the flow goes on to the restore whatever was read.
\* Mutant: a read-back that does not match ends the flow at the cleanup.
AfterVerify_StopsOnMismatch(clipboard_verified) ==
    IF clipboard_verified THEN "restore" ELSE "cleanup"
AfterVerify(clipboard_verified) == "restore"
VerifyClipboard(r) ==
    /\ pc["paste"] = "verify_clipboard"
    /\ exec' = [exec EXCEPT !.calls = Append(@, "read_text"),
                            !.read = IF r.ok THEN "Ok" ELSE "Err",
                            !.clipboard_verified = Verification(r, exec.text) = exec.text]
    /\ pc' = [pc EXCEPT !["paste"] = AfterVerify(exec'.clipboard_verified)]
    /\ UNCHANGED <<osVars, regVars, rs, sim, retval>>
    /\ UNCHANGED repoVars

\* Step 3: the match on focus_result (lines 69-82), then `if auto_paste`.
\* Mutant: an empty registry counts as nothing to restore, hence restored.
FocusRestored_EmptyIsFine(focus_result) ==
    focus_result \in {"Ok", "NoSavedWindow"}
FocusRestored(focus_result) == focus_result = "Ok"
\* Mutant: the 100 ms wait for the target is left out.
AfterFocus_NoWait(auto_paste) == IF auto_paste THEN "strategy1" ELSE "cleanup"
\* Mutant: the paste is simulated whatever auto_paste says.
AfterFocus_AlwaysPaste(auto_paste) == "wait_target"
AfterFocus(auto_paste) == IF auto_paste THEN "wait_target" ELSE "cleanup"

AwaitRestore ==
    /\ pc["paste"] = "restore_returned"
    /\ exec' = [exec EXCEPT !.calls = Append(@, "restore_previous_window"),
                            !.focus_result = rs["paste"].result,
                            !.focus_restored = FocusRestored(rs["paste"].result),
                            !.paste_attempted = exec.auto_paste]
    /\ pc' = [pc EXCEPT !["paste"] = AfterFocus(exec.auto_paste)]
    /\ rs' = [rs EXCEPT !["paste"] = RestoreLocals]
    /\ UNCHANGED <<osVars, regVars, sim, retval>>
    /\ UNCHANGED repoVars

\* The spawn_blocking task of the restore ended with a JoinError: it never ran.
RestoreJoinError ==
    /\ pc["paste"] = "restore"
    /\ exec' = [exec EXCEPT !.calls = Append(@, "restore_previous_window"),
                            !.focus_result = "JoinError",
                            !.focus_restored = FocusRestored("JoinError"),
                            !.paste_attempted = exec.auto_paste]
    /\ pc' = [pc EXCEPT !["paste"] = AfterFocus(exec.auto_paste)]
    /\ UNCHANGED <<osVars, regVars, rs, sim, retval>>
    /\ UNCHANGED repoVars

\* Step 4: sleep 100 ms, then spawn the simulate_paste worker.
WaitTargetReady ==
    /\ pc["paste"] = "wait_target"
    /\ exec' = [exec EXCEPT !.calls = Append(@, "wait_target_ready")]
    /\ pc' = [pc EXCEPT !["paste"] = "strategy1"]
    /\ UNCHANGED <<osVars, regVars, rs, sim, retval>>
    /\ UNCHANGED repoVars

\* The match on paste_result (lines 102-115).
PasteResultOk(paste_result) == paste_result = "Ok"
\* Both arms of the match fall through to step 5.
\* Mutant: a failed injection returns before the cleanup.
AfterPaste_FailureReturns(paste_result_ok) ==
    IF paste_result_ok THEN "cleanup" ELSE "done"
AfterPaste(paste_result_ok) == "cleanup"

AwaitPaste ==
    /\ pc["paste"] = "paste_returned"
    /\ exec' = [exec EXCEPT !.calls = Append(@, "simulate_paste"),
                            !.paste_result = sim.result,
                            !.paste_result_ok = PasteResultOk(sim.result)]
    /\ sim' = SimLocals
    /\ pc' = [pc EXCEPT !["paste"] = AfterPaste(exec'.paste_result_ok)]
    /\ UNCHANGED <<osVars, regVars, rs, retval>>
    /\ UNCHANGED repoVars

PasteJoinError ==
    /\ pc["paste"] = "strategy1"
    /\ exec' = [exec EXCEPT !.calls = Append(@, "simulate_paste"),
                            !.paste_result = "JoinError",
                            !.paste_result_ok = PasteResultOk("JoinError")]
    /\ pc' = [pc EXCEPT !["paste"] = AfterPaste(exec'.paste_result_ok)]
    /\ UNCHANGED <<osVars, regVars, rs, sim, retval>>
    /\ UNCHANGED repoVars

\* Step 5: clear_saved_window, then the result is built and returned.
Cleanup ==
    /\ pc["paste"] = "cleanup"
    /\ lock = "free"
    /\ PREVIOUS_WINDOW' = ClearStore
    /\ cleared' = TRUE
    /\ exec' = [exec EXCEPT !.calls = Append(@, "clear_saved_window")]
    /\ retval' = [retval EXCEPT !["paste"] = Completed(exec)]
    /\ pc' = [pc EXCEPT !["paste"] = "done"]
    /\ UNCHANGED <<osVars, lock, remembered, last, rs, sim>>
    /\ UNCHANGED repoVars

\* ------------------------------------------------------------- hide_window
\* window.hide(), sleep 50 ms, then restore_previous_window on the command's
\* own task.
StartHide ==
    /\ pc["hide"] = "idle"
    /\ MainWindow \in visible
    /\ HideMain
    /\ pc' = [pc EXCEPT !["hide"] = "restore"]
    /\ UNCHANGED <<regVars, rs, exec, sim, retval>>
    /\ UNCHANGED repoVars

\* window_manager.restore_previous_window()?; window_manager.clear_saved_window()
\* Mutant: the registry is cleared whatever the restore returned.
HideClears_Always(result) == TRUE
HideClears(result) == result = "Ok"
FinishHide ==
    /\ pc["hide"] = "restore_returned"
    /\ IF HideClears(rs["hide"].result)
       THEN /\ lock = "free"
            /\ PREVIOUS_WINDOW' = ClearStore
            /\ cleared' = TRUE
            /\ remembered' = None
            /\ retval' = [retval EXCEPT !["hide"] = [tag |-> "Ok"]]
       ELSE /\ UNCHANGED <<PREVIOUS_WINDOW, cleared, remembered>>
            /\ retval' = [retval EXCEPT !["hide"] =
                             [tag |-> "Err", error |-> rs["hide"].result]]
    /\ pc' = [pc EXCEPT !["hide"] = "done"]
    /\ rs' = [rs EXCEPT !["hide"] = RestoreLocals]
    /\ UNCHANGED <<osVars, lock, last, exec, sim>>
    /\ UNCHANGED repoVars

\* The command's future completes: its result goes to the frontend and its
\* locals are dropped.
Returned(p) ==
    /\ pc[p] = "done"
    /\ pc' = [pc EXCEPT ![p] = "idle"]
    /\ retval' = [retval EXCEPT ![p] = NoReturn]
    /\ exec' = IF p = "paste" THEN ExecLocals ELSE exec
    /\ UNCHANGED <<osVars, regVars, rs, sim>>
    /\ UNCHANGED repoVars

\* The copy_and_paste command among the handlers and the blur listener.
\* execute sees of simulate_paste only its result: here strategy 1 fails, if at
\* all, at its first key event, and the messages of strategies 2 and 3 are
\* delivered.  SpecInject has every key event and every message fail.
FailsAt(sendinput_ok) == IF sendinput_ok THEN 0 ELSE 1
Next ==
    \/ \E w \in Hwnds \cup {NullHwnd} : UserFocus(w)
    \/ \E w \in ExternalWindows : CloseWindow(w)
    \/ \E h \in ShowHandlers, got \in BOOLEAN :
          Show(h, got) /\ UNCHANGED <<remembered, last>>
    \/ BlurListener /\ UNCHANGED <<remembered, last>>
    \/ \E text \in Texts, auto_paste \in BOOLEAN : StartPaste(text, auto_paste)
    \/ \E ok \in BOOLEAN : WriteClipboard(ok)
    \/ \E r \in ReadResults : VerifyClipboard(r)
    \/ RestoreLock("paste")
    \/ RestoreIsWindow("paste")
    \/ \E accepted \in BOOLEAN, honoured \in BOOLEAN :
          RestoreSetForeground("paste", accepted, honoured)
    \/ RestorePoll("paste")
    \/ AwaitRestore
    \/ RestoreJoinError
    \/ WaitTargetReady
    \/ \E sendinput_ok \in BOOLEAN : Strategy1(FailsAt(sendinput_ok))
    \/ Strategy2(TRUE)
    \/ Strategy3(TRUE)
    \/ AwaitPaste
    \/ PasteJoinError
    \/ Cleanup
    \/ Returned("paste")

Spec == Init /\ [][Next]_vars

\* Every call that execute awaits returns: the use case takes its next step.
PasteStep ==
    \/ \E ok \in BOOLEAN : WriteClipboard(ok)
    \/ \E r \in ReadResults : VerifyClipboard(r)
    \/ RestoreLock("paste")
    \/ RestoreIsWindow("paste")
    \/ \E accepted \in BOOLEAN, honoured \in BOOLEAN :
          RestoreSetForeground("paste", accepted, honoured)
    \/ RestorePoll("paste")
    \/ AwaitRestore
    \/ RestoreJoinError
    \/ WaitTargetReady
    \/ \E sendinput_ok \in BOOLEAN : Strategy1(FailsAt(sendinput_ok))
    \/ Strategy2(TRUE)
    \/ Strategy3(TRUE)
    \/ AwaitPaste
    \/ PasteJoinError
    \/ Cleanup
SpecFair == Spec /\ WF_vars(PasteStep)

\* The same program with the SendInput call of any key event failing and the
\* messages of strategies 2 and 3 delivered or not.
NextInject ==
    \/ Next
    \/ \E fails_at \in 0..Len(CtrlV) : Strategy1(fails_at)
    \/ \E sent_ok \in BOOLEAN : Strategy2(sent_ok)
    \/ \E sent_ok \in BOOLEAN : Strategy3(sent_ok)
SpecInject == Init /\ [][NextInject]_vars

\* History of the registry writes: what a successful remember_current_window
\* found in the foreground, forgotten at the next write of another kind.
RememberCalled(h) ==
    LET hwnd == ForegroundAtRemember(h, fg, fg')
    IN  remembered' = IF RememberResult(hwnd) = "Ok" THEN Some(hwnd) ELSE remembered
ExternalCalled ==
    remembered' = IF ExternalResult(fg) = "true" THEN None ELSE remembered

\* The hide_window command among the handlers and the blur listener.
NextHide ==
    \/ \E w \in Hwnds \cup {NullHwnd} : UserFocus(w)
    \/ \E w \in ExternalWindows : CloseWindow(w)
    \/ \E h \in ShowHandlers, got \in BOOLEAN :
          Show(h, got) /\ RememberCalled(h) /\ UNCHANGED last
    \/ BlurListener /\ ExternalCalled /\ UNCHANGED last
    \/ StartHide
    \/ RestoreLock("hide")
    \/ RestoreIsWindow("hide")
    \/ \E accepted \in BOOLEAN, honoured \in BOOLEAN :
          RestoreSetForeground("hide", accepted, honoured)
    \/ RestorePoll("hide")
    \/ FinishHide
    \/ Returned("hide")

SpecHide == Init /\ [][NextHide]_vars

\* hide_window while a copy_and_paste command in flight reaches its step 5:
\* clear_saved_window takes the mutex, stores None and releases it.
ClearCalled ==
    /\ lock = "free"
    /\ PREVIOUS_WINDOW' = ClearStore
    /\ cleared' = TRUE
    /\ remembered' = None
    /\ UNCHANGED <<osVars, taskVars, lock, last>>
    /\ UNCHANGED repoVars
NextRace ==
    \/ NextHide
    \/ ClearCalled
SpecRace == Init /\ [][NextRace]_vars

\* restore_previous_window runs on a thread of its own or on the command's
\* task, and nothing it calls blocks: every iteration of its loop is taken.
SpecHideFair == SpecHide /\ WF_vars(RestorePoll("hide"))

\* The handlers and the blur listener alone, with what each registry call
\* returned to its caller: `let _ =` and `?` in the handlers, the match of
\* lib.rs 273-283 in the listener.
Called(op, by, result) == [op |-> op, by |-> by, result |-> result]
NextCalls ==
    \/ \E w \in Hwnds \cup {NullHwnd} : UserFocus(w)
    \/ \E w \in ExternalWindows : CloseWindow(w)
    \/ \E h \in ShowHandlers, got \in BOOLEAN :
          /\ Show(h, got)
          /\ RememberCalled(h)
          /\ last' = Called("remember_current_window", h,
                            RememberResult(ForegroundAtRemember(h, fg, fg')))
    \/ /\ BlurListener
       /\ ExternalCalled
       /\ last' = Called("remember_if_external", "blur_listener", ExternalResult(fg))

SpecCalls == Init /\ [][NextCalls]_vars

\* ------------------------------------------------- the prompt repository
\* Strings: str::split, str::trim, join.
StartsAt(s, sep, i) ==
    i + Len(sep) - 1 <= Len(s) /\ SubSeq(s, i, i + Len(sep) - 1) = sep
Find(s, sep) ==
    LET at == {i \in 1..Len(s) : StartsAt(s, sep, i)}
    IN  IF at = {} THEN 0 ELSE CHOOSE i \in at : \A j \in at : i <= j
RECURSIVE Split(_, _)
Split(s, sep) ==
    LET k == Find(s, sep)
    IN  IF k = 0 THEN <<s>>
        ELSE <<SubSeq(s, 1, k - 1)>> \o Split(SubSeq(s, k + Len(sep), Len(s)), sep)
RECURSIVE Join(_, _)
Join(parts, sep) ==
    IF Len(parts) = 0 THEN ""
    ELSE IF Len(parts) = 1 THEN parts[1]
    ELSE parts[1] \o sep \o Join(Tail(parts), sep)
IsWhitespace(s, i) == SubSeq(s, i, i) \in {" ", "\n", "\t"}
Trim(s) ==
    LET kept == {i \in 1..Len(s) : ~IsWhitespace(s, i)}
    IN  IF kept = {} THEN ""
        ELSE SubSeq(s, CHOOSE i \in kept : \A j \in kept : i <= j,
                       CHOOSE i \in kept : \A j \in kept : j <= i)

\* Result<T, String>
RepoOk(value) == [ok |-> TRUE, value |-> value]
RepoErr(error) == [ok |-> FALSE, error |-> error]

\* Path::file_name and Path::extension of a relative path.
Positions(s, c) == {i \in 1..Len(s) : SubSeq(s, i, i) = c}
LastOf(S) == CHOOSE i \in S : \A j \in S : j <= i
file_name(path) ==
    LET slashes == Positions(path, "/")
    IN  IF slashes = {} THEN path ELSE SubSeq(path, LastOf(slashes) + 1, Len(path))
extension(path) ==
    LET name == file_name(path)
        dots == Positions(name, ".") \ {1}
    IN  IF dots = {} THEN "" ELSE SubSeq(name, LastOf(dots) + 1, Len(name))

\* The Prompt entity: id, name and content; the other fields keep the values
\* below, which serde_yaml writes after them.
Prompt(id, name, content) == [id |-> id, name |-> name, content |-> content]
Prompts == {Prompt(id, name, content) :
               id \in PromptIds, name \in PromptNames, content \in PromptContents}

\* serde_yaml::to_string(&prompt): one `key: value` line per field of the
\* struct, in declaration order, content included; the empty string is ''.
Scalar(v) == IF v = "" THEN "''" ELSE v
to_string(prompt) ==
    "id: " \o Scalar(prompt.id) \o "\n" \o
    "name: " \o Scalar(prompt.name) \o "\n" \o
    "description: ''\n" \o
    "content: " \o Scalar(prompt.content) \o "\n" \o
    "folder: ''\nicon: file-text\ncolor: '#6B7280'\ntags: []\nvariables: []\n" \o
    "auto_paste: false\nis_favorite: false\ncreated_at: ''\nupdated_at: ''\n"

\* serde_yaml::from_str::<Prompt>: `name` is the one field without a default.
FieldLines(lines, key) == {i \in 1..Len(lines) : StartsAt(lines[i], key \o ":", 1)}
FieldValue(line, key) == Trim(SubSeq(line, Len(key) + 2, Len(line)))
Unquoted(v) == IF v = "''" THEN "" ELSE v
from_str(frontmatter) ==
    LET lines == Split(frontmatter, "\n")
        names == FieldLines(lines, "name")
        contents == FieldLines(lines, "content")
        Value(S, key) == FieldValue(lines[CHOOSE i \in S : \A j \in S : i <= j], key)
    IN  IF names = {} THEN RepoErr("missing field name")
        ELSE IF Value(names, "name") = ""
        THEN RepoErr("invalid type: unit value, expected a string")
        ELSE RepoOk([name |-> Unquoted(Value(names, "name")),
                     content |-> IF contents = {} THEN ""
                                 ELSE Unquoted(Value(contents, "content"))])

\* YamlParser::serialize
serialize(prompt) == "---\n" \o to_string(prompt) \o "---\n\n" \o prompt.content

\* YamlParser::parse of the file at `path`
parse(fs, path) ==
    LET content == fs[path].text
        parts == Split(content, "---")
    IN  IF Len(parts) < 3
        THEN RepoErr("Invalid file format: missing frontmatter delimiters")
        ELSE LET frontmatter == Trim(parts[2])
                 prompt == from_str(frontmatter)
             IN  IF frontmatter = ""
                 THEN RepoErr("Invalid file format: empty frontmatter")
                 ELSE IF ~prompt.ok THEN prompt
                 ELSE RepoOk(Prompt(file_name(path), prompt.value.name,
                                    Trim(Join(SubSeq(parts, 3, Len(parts)), "---"))))

get_prompt_path(id) == id
list_prompt_files(fs) ==
    {path \in DOMAIN fs : fs[path].exists /\ extension(path) = "md"}
find_all(fs) ==
    RepoOk({parse(fs, file).value :
               file \in {f \in list_prompt_files(fs) : parse(fs, f).ok}})
find_by_id(fs, id) ==
    LET path == get_prompt_path(id)
    IN  IF ~fs[path].exists THEN RepoErr("Prompt not found") ELSE parse(fs, path)

Save(prompt) ==
    /\ files' = [files EXCEPT ![get_prompt_path(prompt.id)] = File(serialize(prompt))]
    /\ saved' = [saved EXCEPT ![prompt.id] = Some(prompt)]
    /\ reply' = [op |-> "save", id |-> prompt.id, result |-> RepoOk("unit")]
    /\ UNCHANGED <<osVars, taskVars, regVars>>
Delete(id) ==
    /\ IF ~files[get_prompt_path(id)].exists
       THEN /\ reply' = [op |-> "delete", id |-> id,
                         result |-> RepoErr("Prompt not found")]
            /\ UNCHANGED <<files, saved>>
       ELSE /\ files' = [files EXCEPT ![get_prompt_path(id)] = NoFile]
            /\ saved' = [saved EXCEPT ![id] = None]
            /\ reply' = [op |-> "delete", id |-> id, result |-> RepoOk("unit")]
    /\ UNCHANGED <<osVars, taskVars, regVars>>
FindById(id) ==
    /\ reply' = [op |-> "find_by_id", id |-> id, result |-> find_by_id(files, id)]
    /\ UNCHANGED <<osVars, taskVars, regVars, files, saved>>
FindAll ==
    /\ reply' = [op |-> "find_all", result |-> find_all(files)]
    /\ UNCHANGED <<osVars, taskVars, regVars, files, saved>>

\* The repository called by the prompt commands, one call at a time.
NextRepo ==
    \/ \E prompt \in Prompts : Save(prompt)
    \/ \E id \in PromptIds : Delete(id)
    \/ \E id \in PromptIds : FindById(id)
    \/ FindAll
SpecRepo == Init /\ [][NextRepo]_vars

\* ------------------------------------------------------------------ claims
Done == pc["paste"] = "done"
Outcome == retval["paste"].value
Contains(seq, x) == \E i \in 1..Len(seq) : seq[i] = x
InjectionOk == exec.paste_result = "Ok"
FocusOk == exec.focus_result = "Ok"

\* C1: in every reachable state the stored handle, when present, is not a
\* window owned by Prompter's own process.
C1_StoredHandleIsExternal ==
    PREVIOUS_WINDOW # None => ~is_same_process(Unwrap(PREVIOUS_WINDOW))

\* C2: when the clipboard write succeeded, paste_likely_success is true if and
\* only if auto_paste was requested, simulate_paste reported success and the
\* focus restore reported success.
C2_LikelyIffPasteAndFocus ==
    Done /\ exec.write = "Ok" =>
        (Outcome.paste_likely_success <=> exec.auto_paste /\ InjectionOk /\ FocusOk)

C2_Witness ==
    /\ Done
    /\ exec.auto_paste
    /\ InjectionOk
    /\ exec.focus_result = "FocusNotVerified"
    /\ ~Outcome.paste_likely_success

\* C3: every returned outcome with paste_attempted = false has
\* paste_likely_success = false.
C3_NotAttemptedNotLikely ==
    Done => (~Outcome.paste_attempted => ~Outcome.paste_likely_success)

C3_Witness ==
    /\ Done
    /\ exec.write = "Ok"
    /\ ~Outcome.paste_attempted
    /\ exec.focus_restored

\* C4: a failed clipboard write goes straight to the end with all three flags
\* false and a message that begins "Failed to copy"; write_text is the only
\* step performed.
C4_WriteFailureShortCircuits ==
    exec.write = "Err" =>
        /\ Done
        /\ retval["paste"].tag = "Ok"
        /\ ~Outcome.clipboard_success
        /\ ~Outcome.paste_attempted
        /\ ~Outcome.paste_likely_success
        /\ SubSeq(Outcome.message, 1, 14) = "Failed to copy"
        /\ exec.calls = <<"write_text">>

C4_Witness ==
    /\ Done
    /\ exec.write = "Err"
    /\ exec.auto_paste
    /\ PREVIOUS_WINDOW # None

\* C5: once the write succeeded, the use case returns Ok with
\* clipboard_success = true whatever failed afterwards.
C5_OutcomeAfterWrite ==
    Done /\ exec.write = "Ok" =>
        /\ retval["paste"].tag = "Ok"
        /\ Outcome.clipboard_success

C5_Witness ==
    /\ Done
    /\ exec.read = "Err"
    /\ exec.focus_result = "StaleWindowHandle"
    /\ exec.paste_result = "AllInjectionStrategiesFailed"
    /\ Outcome.clipboard_success

\* C6: with auto_paste = false the injector is never invoked and the wait for
\* the target is never entered; after a successful write the outcome is exactly
\* {true, false, false, "Copied to clipboard"}.
InjectionPcs == {"wait_target", "strategy1", "strategy2", "strategy3", "paste_returned"}
C6_NoInjectionWithoutAutoPaste ==
    exec.write = "Ok" /\ ~exec.auto_paste =>
        /\ pc["paste"] \notin InjectionPcs
        /\ sim = SimLocals
        /\ ~Contains(exec.calls, "wait_target_ready")
        /\ ~Contains(exec.calls, "simulate_paste")
        /\ Done => Outcome = [clipboard_success |-> TRUE, paste_attempted |-> FALSE,
                               paste_likely_success |-> FALSE,
                               message |-> "Copied to clipboard"]

C6_Witness ==
    /\ Done
    /\ exec.write = "Ok"
    /\ ~exec.auto_paste
    /\ FocusOk
    /\ Outcome.message = "Copied to clipboard"

\* C7: after a successful write the message is this function of auto_paste,
\* the focus restore's success and the injector's success.
SummaryOf(auto_paste, focus_restored, injection_ok) ==
    CASE ~auto_paste -> "Copied to clipboard"
      [] auto_paste /\ focus_restored /\ injection_ok -> "Copied and pasted"
      [] auto_paste /\ ~focus_restored -> "Copied to clipboard - press Ctrl+V to paste"
      [] auto_paste /\ focus_restored /\ ~injection_ok ->
            "Copied to clipboard - press Ctrl+V if not pasted"

C7_SummaryIsFunction ==
    Done /\ exec.write = "Ok" =>
        Outcome.message = SummaryOf(exec.auto_paste, FocusOk, InjectionOk)

C7_Witness ==
    /\ Done
    /\ exec.auto_paste
    /\ exec.focus_result = "JoinError"
    /\ InjectionOk
    /\ Outcome.message = "Copied to clipboard - press Ctrl+V to paste"

\* C8: simulate_paste reports success exactly when at least one strategy
\* reported success, fails exactly when all three failed, and a success stays a
\* success when more strategies succeed.
C8_AnyStrategySucceeds ==
    pc["paste"] = "paste_returned" =>
        /\ sim.result = "Ok" <=>
              (sim.sendinput_success \/ sim.sendmessage_success \/ sim.wm_paste_success)
        /\ sim.result = "AllInjectionStrategiesFailed" <=>
              (~sim.sendinput_success /\ ~sim.sendmessage_success /\ ~sim.wm_paste_success)
        /\ \A a, b, c \in BOOLEAN :
              /\ sim.sendinput_success => a
              /\ sim.sendmessage_success => b
              /\ sim.wm_paste_success => c
              /\ sim.result = "Ok"
              => SimulatePasteResult(a, b, c) = "Ok"

C8_Witness ==
    /\ pc["paste"] = "paste_returned"
    /\ ~sim.sendinput_success
    /\ ~sim.sendmessage_success
    /\ sim.wm_paste_success
    /\ sim.result = "Ok"

\* C9: every simulate_paste call tries SendInput, then SendMessage, then
\* WM_PASTE, once each, whatever the earlier strategies reported.
StrategyOrder == <<"SendInput", "SendMessage", "WM_PASTE">>
C9_AllStrategiesInOrder ==
    /\ pc["paste"] = "strategy1" => sim.tried = <<>>
    /\ pc["paste"] = "strategy2" => sim.tried = SubSeq(StrategyOrder, 1, 1)
    /\ pc["paste"] = "strategy3" => sim.tried = SubSeq(StrategyOrder, 1, 2)
    /\ pc["paste"] = "paste_returned" => sim.tried = StrategyOrder

C9_Witness ==
    /\ pc["paste"] = "paste_returned"
    /\ sim.sendinput_success
    /\ ~sim.sendmessage_success
    /\ sim.tried = StrategyOrder

\* C10: a restore_previous_window that finds the registry empty returns
\* NoSavedWindow at once and has made no OS call.
RestorePcs == {"is_window", "set_foreground", "verify_focus", "restore_returned"}
C10_EmptyRegistryNoOsCall ==
    [][\A p \in Procs :
          pc[p] = "restore" /\ pc'[p] \in RestorePcs /\ PREVIOUS_WINDOW = None =>
              /\ pc'[p] = "restore_returned"
              /\ rs'[p].result = "NoSavedWindow"
              /\ rs'[p].os_calls = <<>>
              /\ lock' = "free"]_vars

C10_Witness ==
    /\ pc["paste"] = "restore_returned"
    /\ rs["paste"].result = "NoSavedWindow"
    /\ rs["paste"].os_calls = <<>>
    /\ cleared

\* C11: when the last write to the registry was a successful
\* remember_current_window, a restore_previous_window takes the handle that
\* call found as its target: IsWindow and SetForegroundWindow are given that
\* handle and every poll is compared with it, not with one stored earlier.
HandleCalls(calls) ==
    {i \in 1..Len(calls) : calls[i].call # "sleep"}
HandleOf(c) == IF c.call = "GetForegroundWindow" THEN c.target ELSE c.hwnd
RunningPcs == {"restore", "is_window", "set_foreground", "verify_focus"}
C11_RestoreTargetsLastRemembered ==
    [][\A p \in Procs :
          pc[p] \in RunningPcs /\ rs'[p] # rs[p] /\ remembered # None =>
              /\ rs'[p].hwnd_val = remembered
              /\ pc[p] # "restore" => rs'[p].os_calls # <<>>
              /\ \A i \in HandleCalls(rs'[p].os_calls) :
                    HandleOf(rs'[p].os_calls[i]) = Unwrap(remembered)]_vars

C11_Witness ==
    /\ pc["hide"] = "restore_returned"
    /\ rs["hide"].result = "Ok"
    /\ remembered # None
    /\ rs["hide"].hwnd_val = remembered
    /\ Unwrap(remembered) \in ExternalWindows
    /\ Unwrap(remembered) # MainWindow + 1

\* C12: a remember_if_external that finds a window of Prompter's own process in
\* the foreground returns false and leaves PREVIOUS_WINDOW as it was; one that
\* finds a window of another process stores that handle and returns true.
C12_ExternalOnlyStoresForeign ==
    [][blurPending' < blurPending =>
          /\ last'.op = "remember_if_external"
          /\ fg \in OwnWindows =>
                last'.result = "false" /\ PREVIOUS_WINDOW' = PREVIOUS_WINDOW
          /\ fg \in ExternalWindows =>
                last'.result = "true" /\ PREVIOUS_WINDOW' = Some(fg)]_vars

C12_Witness ==
    /\ last.op = "remember_if_external"
    /\ last.result = "false"
    /\ fg \in OwnWindows
    /\ PREVIOUS_WINDOW # None
    /\ blurPending = 0

\* C13: a restore returns Ok only when, after SetForegroundWindow, its last
\* poll returned the target; no earlier poll of that call had returned it, and
\* a restore that is still polling has seen no match.
IsPoll(c) == c.call = "GetForegroundWindow"
Matched(c) == IsPoll(c) /\ c.returned_target
C13_OkOnlyAfterMatchingPoll ==
    \A p \in Procs :
        LET c == rs[p].os_calls
        IN  /\ rs[p].result = "Ok" =>
                /\ Len(c) > 2
                /\ Matched(c[Len(c)])
                /\ c[Len(c)].target = Unwrap(rs[p].hwnd_val)
                /\ \E i \in 1..Len(c) : c[i].call = "SetForegroundWindow"
                /\ \A i \in 1..(Len(c) - 1) :
                      /\ ~Matched(c[i])
                      /\ c[i].call = "SetForegroundWindow" =>
                            \E j \in (i + 1)..Len(c) : IsPoll(c[j])
            /\ pc[p] = "verify_focus" => \A i \in 1..Len(c) : ~Matched(c[i])

C13_Witness ==
    /\ pc["hide"] = "restore_returned"
    /\ rs["hide"].result = "Ok"
    /\ rs["hide"].attempt = 2
    /\ ~Matched(rs["hide"].os_calls[Len(rs["hide"].os_calls) - 2])
    /\ Matched(rs["hide"].os_calls[Len(rs["hide"].os_calls)])

\* C14: the verification loop makes at most VerifyAttempts polls, each one
\* right after one sleep of VerifyDelayMs; a restore that is polling always
\* returns, and it returns FocusNotVerified exactly when VerifyAttempts polls
\* were made and none of them returned the target.
Polls(c) == {i \in 1..Len(c) : IsPoll(c[i])}
Sleeps(c) == {i \in 1..Len(c) : c[i].call = "sleep"}
C14_LoopBound ==
    \A p \in Procs :
        LET c == rs[p].os_calls
        IN  /\ Cardinality(Polls(c)) = rs[p].attempt
            /\ Cardinality(Sleeps(c)) = rs[p].attempt
            /\ rs[p].attempt <= VerifyAttempts
            /\ \A i \in Polls(c) : i > 1 /\ c[i - 1] = Slept(VerifyDelayMs)
            /\ pc[p] = "verify_focus" => rs[p].attempt < VerifyAttempts
            /\ rs[p].result = "FocusNotVerified" <=>
                  /\ pc[p] = "restore_returned"
                  /\ rs[p].attempt = VerifyAttempts
                  /\ \A i \in Polls(c) : ~Matched(c[i])
C14_BoundedVerification ==
    /\ []C14_LoopBound
    /\ pc["hide"] = "verify_focus" ~> pc["hide"] = "restore_returned"

C14_Witness ==
    /\ pc["hide"] = "restore_returned"
    /\ rs["hide"].result = "FocusNotVerified"
    /\ rs["hide"].attempt = VerifyAttempts
    /\ fg # Unwrap(rs["hide"].hwnd_val)

\* C15: a restore checks, in this order, the registry, the handle's liveness,
\* the SetForegroundWindow request and the verification polls, and returns at
\* the first failure without a later call: StaleWindowHandle exactly when the
\* stored handle is no live window, with IsWindow the only call;
\* OSFocusRejected with no poll made.  No step of a restore writes
\* PREVIOUS_WINDOW.
CallNames(c) == [i \in 1..Len(c) |-> c[i].call]
Live(hwnd) == hwnd \in OwnWindows \cup alive
C15_ChecksInOrder ==
    \A p \in Procs :
        LET n == CallNames(rs[p].os_calls)
        IN  /\ rs[p].result = "NoSavedWindow" => n = <<>>
            /\ rs[p].result = "StaleWindowHandle" => n = <<"IsWindow">>
            /\ rs[p].result = "OSFocusRejected" =>
                  n = <<"IsWindow", "SetForegroundWindow">>
            /\ rs[p].result \in {"Ok", "FocusNotVerified"} =>
                  /\ Len(n) > 3
                  /\ SubSeq(n, 1, 4) =
                        <<"IsWindow", "SetForegroundWindow", "sleep",
                          "GetForegroundWindow">>
            /\ pc[p] = "set_foreground" => n = <<"IsWindow">>
            /\ pc[p] = "verify_focus" /\ rs[p].attempt = 0 =>
                  n = <<"IsWindow", "SetForegroundWindow">>
C15_FailuresReturnAtOnce ==
    /\ []C15_ChecksInOrder
    /\ [][\A p \in Procs :
             /\ pc[p] \in RunningPcs /\ rs'[p] # rs[p] =>
                   PREVIOUS_WINDOW' = PREVIOUS_WINDOW
             /\ pc[p] = "is_window" /\ pc'[p] # pc[p] =>
                   (rs'[p].result = "StaleWindowHandle"
                       <=> ~Live(Unwrap(rs[p].hwnd_val)))]_vars

C15_Witness ==
    /\ pc["hide"] = "restore_returned"
    /\ rs["hide"].result = "StaleWindowHandle"
    /\ PREVIOUS_WINDOW = rs["hide"].hwnd_val
    /\ Unwrap(PREVIOUS_WINDOW) \notin alive

\* C16: the PREVIOUS_WINDOW mutex is free while a restore is in IsWindow, in
\* SetForegroundWindow or in its verification loop, so that a remember or a
\* clear made meanwhile does not wait.
OsCallPcs == {"is_window", "set_foreground", "verify_focus"}
C16_LockOnlyForAccess ==
    \A p \in Procs : pc[p] \in OsCallPcs => lock = "free"

\* C17: the main window never becomes visible without a remember_current_window
\* call of the same handler, and in each of the four handlers that call reads
\* the foreground as it was before show() and set_focus(): the handle stored is
\* the one in the foreground before the window was shown.
ShowStep ==
    /\ last'.op = "remember_current_window"
    /\ last' # last \/ visible' # visible
FullRun ==
    <<"write_text", "read_text", "restore_previous_window", "wait_target_ready",
      "simulate_paste", "clear_saved_window">>
Count(seq, x) == Cardinality({i \in 1..Len(seq) : seq[i] = x})
C18_FailuresAreNotFatal ==
    exec.write = "Ok" /\ exec.auto_paste =>
        /\ pc["paste"] \in InjectionPcs =>
              /\ exec.focus_result # "none"
              /\ Contains(exec.calls, "restore_previous_window")
              /\ rs["paste"] = RestoreLocals
              /\ lock # "paste"
        /\ Count(exec.calls, "simulate_paste") <= 1
        /\ Done =>
              /\ exec.calls = FullRun
              /\ retval["paste"].tag = "Ok"

C18_Witness ==
    /\ Done
    /\ exec.auto_paste
    /\ exec.focus_result = "OSFocusRejected"
    /\ exec.paste_result = "AllInjectionStrategiesFailed"
    /\ exec.calls = FullRun
    /\ retval["paste"].tag = "Ok"

\* C19: what read_text returned (the text written, another text, or an error)
\* decides neither the steps that follow nor the outcome: after a successful
\* write the calls made and the outcome returned are functions of auto_paste
\* and of what the restore and the injection returned.
StepsOf(auto_paste) ==
    IF auto_paste THEN FullRun
    ELSE <<"write_text", "read_text", "restore_previous_window",
           "clear_saved_window">>
IsPrefix(s, t) == Len(s) <= Len(t) /\ s = SubSeq(t, 1, Len(s))
OutcomeOf(auto_paste, focus_ok, injection_ok) ==
    [clipboard_success |-> TRUE,
     paste_attempted |-> auto_paste,
     paste_likely_success |-> auto_paste /\ focus_ok /\ injection_ok,
     message |-> SummaryOf(auto_paste, focus_ok, injection_ok)]
C19_ReadBackDecidesNothing ==
    exec.read # "none" =>
        /\ IsPrefix(exec.calls, StepsOf(exec.auto_paste))
        /\ Done =>
              /\ exec.calls = StepsOf(exec.auto_paste)
              /\ Outcome = OutcomeOf(exec.auto_paste, FocusOk, InjectionOk)

C19_Witness ==
    /\ Done
    /\ exec.read = "Ok"
    /\ ~exec.clipboard_verified
    /\ exec.auto_paste
    /\ Outcome.paste_likely_success

\* C20: an execute goes through WritingClipboard, VerifyingClipboard,
\* RestoringFocus, WaitingForTargetReady, InjectingPaste and Done in that order
\* and enters none of them twice; the two paste states are entered only with
\* auto_paste, and InjectingPaste only after the restore has returned; every
\* execute reaches Done: the task is again and again at Done or between two
\* commands, never for ever inside an execute.
StateOf(at) ==
    CASE at = "idle" -> "Idle"
      [] at = "write_clipboard" -> "WritingClipboard"
      [] at = "verify_clipboard" -> "VerifyingClipboard"
      [] at \in {"restore"} \cup RestorePcs -> "RestoringFocus"
      [] at = "wait_target" -> "WaitingForTargetReady"
      [] at \in {"strategy1", "strategy2", "strategy3", "paste_returned"} ->
            "InjectingPaste"
      [] at \in {"cleanup", "done"} -> "Done"
StateOrder ==
    {<<"Idle", "WritingClipboard">>,
     <<"WritingClipboard", "VerifyingClipboard">>,
     <<"WritingClipboard", "Done">>,
     <<"VerifyingClipboard", "RestoringFocus">>,
     <<"RestoringFocus", "WaitingForTargetReady">>,
     <<"RestoringFocus", "Done">>,
     <<"WaitingForTargetReady", "InjectingPaste">>,
     <<"InjectingPaste", "Done">>,
     <<"Done", "Idle">>}
C20_PasteStates ==
    /\ StateOf(pc["paste"]) \in {"WaitingForTargetReady", "InjectingPaste"} =>
          /\ exec.auto_paste
          /\ exec.focus_result # "none"
          /\ rs["paste"] = RestoreLocals
    /\ StateOf(pc["paste"]) = "Done" /\ exec.write = "Ok" /\ exec.auto_paste =>
          Contains(exec.calls, "simulate_paste")
C20_StatesInOrder ==
    /\ []C20_PasteStates
    /\ [][StateOf(pc'["paste"]) # StateOf(pc["paste"]) =>
             <<StateOf(pc["paste"]), StateOf(pc'["paste"])>> \in StateOrder]_vars
    /\ []<>(pc["paste"] \in {"idle", "done"})

C20_Witness ==
    /\ Done
    /\ exec.auto_paste
    /\ exec.calls = FullRun
    /\ exec.focus_result = "FocusNotVerified"
    /\ exec.paste_result = "Ok"

\* C21: with no foreground window both remember_current_window and
\* remember_if_external fail with NoForegroundWindow and leave PREVIOUS_WINDOW
\* as it was; with a foreground window remember_current_window stores it
\* whatever was stored and whichever process owns it.
C21_NoForegroundFails ==
    [][/\ ShowStep /\ fg = NullHwnd =>
             /\ last'.result = "NoForegroundWindow"
             /\ PREVIOUS_WINDOW' = PREVIOUS_WINDOW
       /\ ShowStep /\ fg \in Hwnds =>
             /\ last'.result = "Ok"
             /\ PREVIOUS_WINDOW' = Some(fg)
       /\ blurPending' < blurPending /\ fg = NullHwnd =>
             /\ last' = Called("remember_if_external", "blur_listener",
                               "NoForegroundWindow")
             /\ PREVIOUS_WINDOW' = PREVIOUS_WINDOW]_vars

C21_Witness ==
    /\ last = Called("remember_if_external", "blur_listener", "NoForegroundWindow")
    /\ fg = NullHwnd
    /\ PREVIOUS_WINDOW # None
    /\ blurPending = 0

\* C23: an execute whose write succeeded calls clear_saved_window once, as its
\* last call, after restore_previous_window and (with auto_paste) after
\* simulate_paste; PREVIOUS_WINDOW is empty at the step that returns the outcome.
C23_Cleared ==
    exec.write = "Ok" =>
        /\ ~Done => Count(exec.calls, "clear_saved_window") = 0
        /\ Done =>
              /\ Count(exec.calls, "clear_saved_window") = 1
              /\ exec.calls[Len(exec.calls)] = "clear_saved_window"
              /\ Count(exec.calls, "restore_previous_window") = 1
              /\ exec.auto_paste => Count(exec.calls, "simulate_paste") = 1
              /\ Outcome.clipboard_success
C23_ClearsOnceBeforeReturn ==
    /\ []C23_Cleared
    /\ [][pc["paste"] # "done" /\ pc'["paste"] = "done" /\ exec'.write = "Ok" =>
             PREVIOUS_WINDOW' = None]_vars

C23_Witness ==
    /\ Done
    /\ exec.write = "Ok"
    /\ exec.focus_result = "FocusNotVerified"
    /\ PREVIOUS_WINDOW = None
    /\ cleared
    /\ exec.calls[Len(exec.calls)] = "clear_saved_window"

\* C24: a strategy 1 that ran to its end has injected four key events, Ctrl
\* down, V down, V up, Ctrl up, the keys released in the reverse order of their
\* press, with one sleep between each two events.
IsKey(e) == "vk" \in DOMAIN e
KeysOf(log) == SelectSeq(log, IsKey)
PasteKeys ==
    <<[vk |-> "VK_CONTROL", key_up |-> FALSE], [vk |-> "VK_V", key_up |-> FALSE],
      [vk |-> "VK_V", key_up |-> TRUE], [vk |-> "VK_CONTROL", key_up |-> TRUE]>>
AfterStrategy1Pcs == {"strategy2", "strategy3", "paste_returned"}
C24_FourKeyEventsInOrder ==
    /\ pc["paste"] \in AfterStrategy1Pcs /\ sim.sendinput_success =>
          /\ KeysOf(sim.keys) = PasteKeys
          /\ Len(sim.keys) = Len(PasteKeys) + Len(PasteKeys) - 1
          /\ \A i \in 1..Len(sim.keys) : IsKey(sim.keys[i]) <=> i % 2 = 1
    /\ simulate_keys(<<VK_CONTROL, VK_V>>) = PasteKeys

C24_Witness ==
    /\ pc["paste"] = "strategy2"
    /\ sim.sendinput_success
    /\ KeysOf(sim.keys) = PasteKeys

\* C26: when strategy 1 has returned, every key it pressed has been released:
\* each key-down event that was injected is followed by the key-up event of
\* the same key.
C26_NoKeyLeftPressed ==
    pc["paste"] \in AfterStrategy1Pcs =>
        LET k == KeysOf(sim.keys)
        IN  \A i \in 1..Len(k) :
               ~k[i].key_up =>
                   \E j \in (i + 1)..Len(k) : k[j].vk = k[i].vk /\ k[j].key_up

\* C27: strategies 2 and 3 fail exactly when there is no foreground window as
\* they start, whatever their messages return; simulate_paste fails only when
\* neither of them found a foreground window, so that no message was sent.
C27_MessageResultsIgnored ==
    /\ [](sim.result = "AllInjectionStrategiesFailed" =>
             sim.sent = <<>> /\ KeysOf(sim.keys) # PasteKeys)
    /\ [][/\ pc["paste"] = "strategy2" /\ pc'["paste"] # "strategy2" =>
                (sim'.sendmessage_success <=> fg # NullHwnd)
          /\ pc["paste"] = "strategy3" /\ pc'["paste"] # "strategy3" =>
                (sim'.wm_paste_success <=> fg # NullHwnd)]_vars

C27_Witness ==
    /\ pc["paste"] = "paste_returned"
    /\ sim.sent = <<FALSE, FALSE>>
    /\ ~sim.sendinput_success
    /\ sim.sendmessage_success
    /\ sim.wm_paste_success
    /\ sim.result = "Ok"

\* C25: every restore_previous_window and every simulate_paste runs on a
\* spawn_blocking worker, never on the async task of the command, in
\* copy_and_paste and in hide_window alike.
C25_BlockingCallsOnWorkers ==
    /\ \A p \in Procs : rs[p].thread \in {"none", "spawn_blocking"}
    /\ sim.thread \in {"none", "spawn_blocking"}

\* C28: an execute(text, true) that starts its restore while the last write to
\* the registry is the clear of an earlier execute gets NoSavedWindow; its
\* outcome has paste_likely_success = false and the "press Ctrl+V to paste"
\* message, and simulate_paste has still been called.
C28_AfterNoSavedWindow ==
    Done /\ exec.auto_paste /\ exec.focus_result = "NoSavedWindow" =>
        /\ Outcome.clipboard_success
        /\ Outcome.paste_attempted
        /\ ~Outcome.paste_likely_success
        /\ Outcome.message = "Copied to clipboard - press Ctrl+V to paste"
        /\ Count(exec.calls, "simulate_paste") = 1
C28_SecondPasteFindsRegistryEmpty ==
    /\ []C28_AfterNoSavedWindow
    /\ [][pc["paste"] = "restore" /\ cleared /\ pc'["paste"] \in RestorePcs =>
             /\ pc'["paste"] = "restore_returned"
             /\ rs'["paste"].result = "NoSavedWindow"]_vars
    /\ [][pc["paste"] = "restore_returned" /\ pc'["paste"] # "restore_returned"
             /\ rs["paste"].result = "NoSavedWindow" /\ exec.auto_paste =>
                /\ exec'.focus_result = "NoSavedWindow"
                /\ pc'["paste"] = "wait_target"]_vars

C28_Witness ==
    /\ pc["paste"] = "paste_returned"
    /\ exec.focus_result = "NoSavedWindow"
    /\ exec.auto_paste
    /\ cleared
    /\ sim.result = "Ok"

\* C29: hide_window clears the registry only after a restore that returned Ok;
\* after any failed restore it returns that error, does not clear, and leaves
\* PREVIOUS_WINDOW as it was.
RestoreErrors ==
    {"NoSavedWindow", "StaleWindowHandle", "OSFocusRejected", "FocusNotVerified"}
C29_HideClearsOnlyAfterOk ==
    [][/\ pc["hide"] = "restore_returned" /\ pc'["hide"] = "done" =>
             /\ rs["hide"].result \in RestoreErrors \cup {"Ok"}
             /\ rs["hide"].result = "Ok" =>
                   /\ PREVIOUS_WINDOW' = None
                   /\ retval'["hide"] = [tag |-> "Ok"]
             /\ rs["hide"].result \in RestoreErrors =>
                   /\ PREVIOUS_WINDOW' = PREVIOUS_WINDOW
                   /\ cleared' = cleared
                   /\ retval'["hide"] = [tag |-> "Err", error |-> rs["hide"].result]
       /\ pc["hide"] \in RunningPcs /\ rs'["hide"] # rs["hide"] =>
             PREVIOUS_WINDOW' = PREVIOUS_WINDOW]_vars

C29_Witness ==
    /\ pc["hide"] = "done"
    /\ retval["hide"] = [tag |-> "Err", error |-> "FocusNotVerified"]
    /\ PREVIOUS_WINDOW # None
    /\ ~cleared

\* C30: a restore has one target: the handle it read from the registry is the
\* handle given to IsWindow and to SetForegroundWindow and compared with every
\* poll, and it does not change while the restore runs, also while a blur
\* listener, a show handler or a clear is waiting to write the registry.
C30_Target ==
    \A p \in Procs :
        /\ \A i \in HandleCalls(rs[p].os_calls) :
              /\ rs[p].hwnd_val # None
              /\ HandleOf(rs[p].os_calls[i]) = rs[p].hwnd_val[1]
        /\ pc[p] \in OsCallPcs => rs[p].hwnd_val = PREVIOUS_WINDOW
C30_OneTargetThroughout ==
    /\ []C30_Target
    /\ [][\A p \in Procs :
             pc[p] \in OsCallPcs => rs'[p].hwnd_val = rs[p].hwnd_val]_vars

\* A restore that polled to the end while a blur listener waited, and whose
\* target was cleared from the registry as soon as it returned.
C30_Witness ==
    /\ pc["hide"] = "restore_returned"
    /\ rs["hide"].result = "FocusNotVerified"
    /\ Cardinality(Polls(rs["hide"].os_calls)) = VerifyAttempts
    /\ blurPending > 0
    /\ PREVIOUS_WINDOW = None
    /\ cleared

\* C22: after save(p), find_by_id(p.id) returns Ok with p's name and content
\* and find_all holds such a prompt; after delete(i), and for an id never
\* saved, find_by_id(i) fails; find_by_id and delete on such an id fail and
\* leave the directory as it was.
C22_FindsWhatWasSaved ==
    /\ reply.op = "find_by_id" /\ saved[reply.id] # None =>
          /\ reply.result.ok
          /\ reply.result.value.name = Unwrap(saved[reply.id]).name
          /\ reply.result.value.content = Unwrap(saved[reply.id]).content
    /\ reply.op = "find_by_id" /\ saved[reply.id] = None => ~reply.result.ok
    /\ reply.op = "find_all" =>
          /\ reply.result.ok
          /\ \A id \in PromptIds :
                saved[id] # None =>
                   \E found \in reply.result.value :
                      /\ found.name = Unwrap(saved[id]).name
                      /\ found.content = Unwrap(saved[id]).content
C22_SaveFindDelete ==
    /\ []C22_FindsWhatWasSaved
    /\ [][reply'.op \in {"find_by_id", "delete"} /\ saved[reply'.id] = None =>
             ~reply'.result.ok /\ files' = files /\ saved' = saved]_vars
====
